---- MODULE Spec2Model ----
(***************************************************************************)
(* The CO2 sample cache of the weather station (co2_samples.py): the feed  *)
(* parser, the refresh cycle that appends to the active cache file and     *)
(* rotates it, and the two readers of the cache.                           *)
(*                                                                         *)
(* A text line is a record of what the parser can tell apart in it: its    *)
(* number of comma separated fields, the timestamp and its zone token, and *)
(* for each numeric field the number of space separated tokens, the value  *)
(* and the unit token.  File sizes are counted in lines.                   *)
(***************************************************************************)
EXTENDS Integers, Sequences, FiniteSets, TLC

(* ---- bounds of the model ---- *)

\* The rotation threshold of line 86 (5 * 1024 * 1024 bytes), scaled to lines.
RotateLines == 1
\* Most lines in one response of the sensor.
MaxFeed == 2
\* Wall clock readings are 0..MaxClock.
MaxClock == 1
\* Most calls of refresh_co2_ppm_cache in one behaviour.
MaxRefresh == 3

(* ---- the cache directory ---- *)

\* CO2_PPM_CACHE: the name of the active cache file.
CO2_PPM_CACHE == <<"co2_ppm_samples.csv">>

\* f"{cache_file}.{stamp}": the name a rotation gives the old file.
ArchiveName(stamp) == <<"co2_ppm_samples.csv", stamp>>

\* filename.startswith(CO2_PPM_CACHE)
startswith(filename) == filename[1] = CO2_PPM_CACHE[1]

(* ---- lines and samples ---- *)

\* A well-formed four field line of the feed or of the cache.
Record(t, zone, co2, unit) ==
  [utf8 |-> TRUE, nf |-> 4, tsfmt |-> TRUE, t |-> t, zone |-> zone,
   co2 |-> co2, co2tok |-> 2, co2num |-> TRUE, unit |-> unit,
   temp |-> 21, ttok |-> 2, tnum |-> TRUE, tunit |-> "C",
   hum |-> 47, htok |-> 2, hnum |-> TRUE, hunit |-> "rel_humidity"]

\* The lines the sensor may send: two valid readings, and one line for each
\* way of being malformed.
FeedLines ==
  { Record(1, "UTC", 401, "ppm"),
    Record(2, "UTC", 402, "ppm"),
    [Record(1, "UTC", 401, "ppm") EXCEPT !.nf = 2],
    [Record(1, "UTC", 401, "ppm") EXCEPT !.nf = 1],
    [Record(1, "UTC", 401, "ppm") EXCEPT !.unit = "ppb"],
    [Record(1, "UTC", 401, "ppm") EXCEPT !.tsfmt = FALSE],
    [Record(1, "UTC", 401, "ppm") EXCEPT !.utf8 = FALSE] }

\* Lines of every kind parse_sample tells apart: a valid reading, readings
\* with a negative concentration, with another unit after the temperature or
\* the humidity, with the zone name of New York, and lines with a wrong unit
\* after the concentration, a wrong number of fields or of tokens, a number
\* or a timestamp that does not parse, or bytes that are not UTF-8.
WideLines ==
  { Record(1, "UTC", 401, "ppm"),
    Record(2, "UTC", -5, "ppm"),
    Record(2, "EST", 402, "ppm"),
    [Record(1, "UTC", 401, "ppm") EXCEPT !.tunit = "F"],
    [Record(2, "UTC", 402, "ppm") EXCEPT !.hunit = "percent"],
    [Record(1, "UTC", 401, "ppm") EXCEPT !.unit = "ppb"],
    [Record(1, "UTC", 401, "ppm") EXCEPT !.nf = 2],
    [Record(1, "UTC", 401, "ppm") EXCEPT !.nf = 3],
    [Record(1, "UTC", 401, "ppm") EXCEPT !.nf = 5],
    [Record(1, "UTC", 401, "ppm") EXCEPT !.co2tok = 1],
    [Record(1, "UTC", 401, "ppm") EXCEPT !.ttok = 3],
    [Record(1, "UTC", 401, "ppm") EXCEPT !.co2num = FALSE],
    [Record(1, "UTC", 401, "ppm") EXCEPT !.hnum = FALSE],
    [Record(1, "UTC", 401, "ppm") EXCEPT !.tsfmt = FALSE],
    [Record(1, "UTC", 401, "ppm") EXCEPT !.utf8 = FALSE] }

\* The zone settings of the host: time.tzname.
HostZones == { {"EST", "EDT"}, {"UTC"} }

None == [none |-> TRUE]

Co2Sample(timestamp, co2_ppm, temp_c, rel_humidity) ==
  [timestamp |-> timestamp, co2_ppm |-> co2_ppm,
   temp_c |-> temp_c, rel_humidity |-> rel_humidity]

VARIABLES
  tzname,     \* time.tzname of the host: the zone names strptime's %Z accepts
  now,        \* the reading of datetime.now(est), in seconds
  dirExists,  \* the cache directory exists
  files,      \* the files of the cache directory: name -> sequence of lines
  pc,         \* where refresh_co2_ppm_cache is
  response,   \* the lines of the response, while the loop over them runs
  samples,    \* its local variable samples
  status,     \* how its last call ended
  calls,      \* the number of its calls so far
  checked,    \* the lines of the active file when its size was last checked
  rpc,        \* where get_entire_co2_ppm_cache is
  listing,    \* what its os.listdir returned
  ret         \* what the reader call that has just ended returned or raised
              \* (NoCall after any other step)

vars ==
  <<tzname, now, dirExists, files, pc, response, samples, status, calls,
    checked, rpc, listing, ret>>

\* No reader call has just ended.
NoCall == [fn |-> "none", raised |-> "none", value |-> <<>>]

\* A step of the writer or of the clock: the readers stay where they are.
ReadersWait == ret' = NoCall /\ UNCHANGED <<rpc, listing>>

\* datetime.strptime(timestamp_str, "%d/%m/%Y %H:%M:%S (%Z)"): %Z matches
\* utc, gmt and the two names of time.tzname, nothing else.
strptime_ok(line) ==
  line.tsfmt /\ line.zone \in ({"UTC", "GMT"} \cup tzname)

parse_sample(sample_str) ==
  IF sample_str.nf # 4 THEN None
  ELSE IF sample_str.co2tok # 2 \/ sample_str.ttok # 2 \/ sample_str.htok # 2
    THEN None
  ELSE IF sample_str.unit # "ppm" THEN None
  ELSE IF ~strptime_ok(sample_str) THEN None
  ELSE IF ~(sample_str.co2num /\ sample_str.tnum /\ sample_str.hnum) THEN None
  ELSE Co2Sample(sample_str.t, sample_str.co2, sample_str.temp, sample_str.hum)

\* sample.timestamp.strftime("... (%Z)") of a timestamp anchored to
\* America/New_York (the model's timestamps lie in standard time).
strftime_Z(timestamp) == "EST"

\* The line refresh writes for a sample (line 84).
FormatSample(sample) ==
  [utf8 |-> TRUE, nf |-> 4, tsfmt |-> TRUE, t |-> sample.timestamp,
   zone |-> strftime_Z(sample.timestamp),
   co2 |-> sample.co2_ppm, co2tok |-> 2, co2num |-> TRUE, unit |-> "ppm",
   temp |-> sample.temp_c, ttok |-> 2, tnum |-> TRUE, tunit |-> "C",
   hum |-> sample.rel_humidity, htok |-> 2, hnum |-> TRUE,
   hunit |-> "rel_humidity"]

RECURSIVE ParseLines(_)
\* The loop "for sample_str in ...: sample = parse_sample(sample_str); if
\* sample is None: continue; results.append(sample)".
ParseLines(lines) ==
  IF lines = <<>> THEN <<>>
  ELSE LET sample == parse_sample(Head(lines))
       IN  (IF sample = None THEN <<>> ELSE <<sample>>) \o ParseLines(Tail(lines))

\* The lines written by "for sample in samples: f.write(...)".
FormatSamples(ss) == [i \in 1..Len(ss) |-> FormatSample(ss[i])]

\* os.path.getsize(cache_file), in lines.
getsize(name) == Len(files[name])

\* The responses of at most MaxFeed lines taken from the given lines.
FeedsOf(lines) == UNION { [1..n -> lines] : n \in 0..MaxFeed }

Feeds == FeedsOf(FeedLines)

(* ---- refresh_co2_ppm_cache ---- *)

\* A refresh that opens the cache file for writing before it fetches.
FetchFail_truncates ==
  /\ pc = "idle"
  /\ calls < MaxRefresh
  /\ calls' = calls + 1
  /\ status' = "fetch_error"
  /\ files' = (CO2_PPM_CACHE :> <<>>) @@ files
  /\ UNCHANGED <<response, tzname, now, dirExists, pc, samples, checked>>
  /\ ReadersWait

\* requests.get raises RequestException: logged, and refresh returns.
FetchFail ==
  /\ pc = "idle"
  /\ calls < MaxRefresh
  /\ calls' = calls + 1
  /\ status' = "fetch_error"
  /\ UNCHANGED <<response, tzname, now, dirExists, files, pc, samples, checked>>
  /\ ReadersWait

\* The response arrives and is parsed line by line.  decode("utf-8") is not
\* inside a try: bytes that are not UTF-8 raise UnicodeDecodeError out of
\* refresh.
FetchParseFrom(feeds) ==
  /\ pc = "idle"
  /\ calls < MaxRefresh
  /\ calls' = calls + 1
  /\ \E feed \in feeds :
       IF \E i \in 1..Len(feed) : ~feed[i].utf8
         THEN /\ status' = "UnicodeDecodeError"
              /\ UNCHANGED <<pc, response, samples>>
         ELSE /\ response' = feed
              /\ samples' = ParseLines(feed)
              /\ pc' = "mkdir"
              /\ status' = "running"
  /\ UNCHANGED <<tzname, now, dirExists, files, checked>>
  /\ ReadersWait

\* A refresh of the sensor that sends FeedLines.
FetchParse == FetchParseFrom(Feeds)

\* A refresh of a sensor that may send any of WideLines.
FetchParseWide == FetchParseFrom(FeedsOf(WideLines))

\* Path(cache_dir).mkdir(exist_ok=True): the loop over the response is over.
Mkdir ==
  /\ pc = "mkdir"
  /\ response' = <<>>
  /\ dirExists' = TRUE
  /\ pc' = "exists"
  /\ UNCHANGED <<tzname, now, files, samples, status, calls, checked>>
  /\ ReadersWait

\* if not os.path.exists(cache_file): create it empty.
EnsureFile ==
  /\ pc = "exists"
  /\ files' = IF CO2_PPM_CACHE \in DOMAIN files
                THEN files
                ELSE (CO2_PPM_CACHE :> <<>>) @@ files
  /\ pc' = "append"
  /\ UNCHANGED <<response, tzname, now, dirExists, samples, status, calls, checked>>
  /\ ReadersWait

\* A refresh that leaves out the lines the file already holds.
AppendSamples_dedup ==
  /\ pc = "append"
  /\ files' = (CO2_PPM_CACHE :>
                 (files[CO2_PPM_CACHE]
                  \o SelectSeq(FormatSamples(samples),
                               LAMBDA l : \A i \in DOMAIN files[CO2_PPM_CACHE] :
                                            files[CO2_PPM_CACHE][i] # l)))
              @@ files
  /\ pc' = "getsize"
  /\ UNCHANGED <<response, tzname, now, dirExists, samples, status, calls, checked>>
  /\ ReadersWait

\* with open(cache_file, 'a'): one line per sample, at the end of the file.
AppendSamples ==
  /\ pc = "append"
  /\ files' = (CO2_PPM_CACHE :>
                 ((IF CO2_PPM_CACHE \in DOMAIN files
                     THEN files[CO2_PPM_CACHE] ELSE <<>>)
                  \o FormatSamples(samples)))
              @@ files
  /\ pc' = "getsize"
  /\ UNCHANGED <<response, tzname, now, dirExists, samples, status, calls, checked>>
  /\ ReadersWait

\* A size check that measures what this refresh appended.
SizeCheck_of_batch ==
  /\ pc = "getsize"
  /\ IF Len(samples) > RotateLines
       THEN pc' = "rename" /\ UNCHANGED status
       ELSE pc' = "idle" /\ status' = "returned"
  /\ samples' = IF pc' = "idle" THEN <<>> ELSE samples
  /\ checked' = files[CO2_PPM_CACHE]
  /\ UNCHANGED <<response, tzname, now, dirExists, files, calls>>
  /\ ReadersWait

\* A size check that rotates a file that is exactly at the threshold.
SizeCheck_at_threshold ==
  /\ pc = "getsize"
  /\ IF getsize(CO2_PPM_CACHE) >= RotateLines
       THEN pc' = "rename" /\ UNCHANGED status
       ELSE pc' = "idle" /\ status' = "returned"
  /\ samples' = IF pc' = "idle" THEN <<>> ELSE samples
  /\ checked' = files[CO2_PPM_CACHE]
  /\ UNCHANGED <<response, tzname, now, dirExists, files, calls>>
  /\ ReadersWait

\* if os.path.getsize(cache_file) > 5 * 1024 * 1024
SizeCheck ==
  /\ pc = "getsize"
  /\ IF getsize(CO2_PPM_CACHE) > RotateLines
       THEN pc' = "rename" /\ UNCHANGED status
       ELSE pc' = "idle" /\ status' = "returned"
  /\ samples' = IF pc' = "idle" THEN <<>> ELSE samples
  /\ checked' = files[CO2_PPM_CACHE]
  /\ UNCHANGED <<response, tzname, now, dirExists, files, calls>>
  /\ ReadersWait

\* A rotation that removes the old file instead of renaming it.
rename_unlinks(fs, src, dst) ==
  [n \in DOMAIN fs \ {src} |-> fs[n]]

\* os.rename(src, dst): dst is replaced if it exists.
rename(fs, src, dst) ==
  [n \in (DOMAIN fs \ {src}) \cup {dst} |-> IF n = dst THEN fs[src] ELSE fs[n]]

\* os.rename(cache_file, f"{cache_file}.{datetime.now(est).strftime(...)}")
Rename ==
  /\ pc = "rename"
  /\ files' = rename(files, CO2_PPM_CACHE, ArchiveName(now))
  /\ pc' = "create"
  /\ UNCHANGED <<response, tzname, now, dirExists, samples, status, calls, checked>>
  /\ ReadersWait

\* A failed rename that is followed by the creation of the empty file.
RenameFails_truncates ==
  /\ pc = "rename"
  /\ files' = (CO2_PPM_CACHE :> <<>>) @@ files
  /\ pc' = "idle"
  /\ status' = "OSError"
  /\ samples' = <<>>
  /\ UNCHANGED <<response, tzname, now, dirExists, calls, checked>>
  /\ ReadersWait

\* os.rename raises OSError (no permission, read-only or full file system):
\* nothing catches it, and it ends refresh before line 88.
RenameFails ==
  /\ pc = "rename"
  /\ pc' = "idle"
  /\ status' = "OSError"
  /\ samples' = <<>>
  /\ UNCHANGED <<response, tzname, now, dirExists, files, calls, checked>>
  /\ ReadersWait

\* with open(cache_file, 'w'): pass
Create ==
  /\ pc = "create"
  /\ files' = (CO2_PPM_CACHE :> <<>>) @@ files
  /\ pc' = "idle"
  /\ status' = "returned"
  /\ samples' = <<>>
  /\ UNCHANGED <<response, tzname, now, dirExists, calls, checked>>
  /\ ReadersWait

(* ---- the readers ---- *)

Range(seq) == { seq[i] : i \in DOMAIN seq }

RECURSIVE insort(_, _)
\* Puts x into the sorted list after every element whose timestamp is not
\* greater: list.sort is stable.
insort(sorted, x) ==
  IF sorted = <<>> THEN <<x>>
  ELSE IF sorted[Len(sorted)].timestamp <= x.timestamp THEN Append(sorted, x)
  ELSE Append(insort(SubSeq(sorted, 1, Len(sorted) - 1), x), sorted[Len(sorted)])

\* A reader that returns the samples in the order it read them.
sort_skipped(results) == results

RECURSIVE sort_by_timestamp(_)
\* results.sort(key=lambda x: x.timestamp)
sort_by_timestamp(results) ==
  IF results = <<>> THEN <<>>
  ELSE insort(sort_by_timestamp(SubSeq(results, 1, Len(results) - 1)),
              results[Len(results)])

\* get_co2_ppm_cache: open(cache_file, 'r') is not inside a try.
recent(fs) ==
  IF CO2_PPM_CACHE \notin DOMAIN fs
    THEN [fn |-> "get_co2_ppm_cache", raised |-> "FileNotFoundError",
          value |-> <<>>]
    ELSE [fn |-> "get_co2_ppm_cache", raised |-> "none",
          value |-> sort_by_timestamp(ParseLines(fs[CO2_PPM_CACHE]))]

get_co2_ppm_cache ==
  /\ ret' = recent(files)
  /\ UNCHANGED <<response, checked, tzname, now, dirExists, files, pc, samples, status, calls,
                 rpc, listing>>

\* The orders in which os.listdir may return the names.
Listings(names) ==
  { l \in [1..Cardinality(names) -> names] : Range(l) = names }

\* for filename in os.listdir(cache_dir): listdir raises when the directory
\* does not exist.
ListDir ==
  /\ rpc = "idle"
  /\ IF dirExists
       THEN /\ \E l \in Listings(DOMAIN files) : listing' = l
            /\ rpc' = "listed"
            /\ ret' = NoCall
       ELSE /\ ret' = [fn |-> "get_entire_co2_ppm_cache",
                       raised |-> "FileNotFoundError", value |-> <<>>]
            /\ UNCHANGED <<rpc, listing>>
  /\ UNCHANGED <<response, tzname, now, dirExists, files, pc, samples, status, calls, checked>>

RECURSIVE read_listed(_, _)
\* The body of the loop over the listing: the lines of every file whose name
\* starts with CO2_PPM_CACHE, in the order of the listing.
read_listed(fs, names) ==
  IF names = <<>> THEN <<>>
  ELSE (IF startswith(Head(names)) THEN ParseLines(fs[Head(names)]) ELSE <<>>)
       \o read_listed(fs, Tail(names))

\* get_entire_co2_ppm_cache after the listing: open(filename, 'r') is not
\* inside a try, and raises for a listed name that is no longer there.
entire(fs, names) ==
  IF \E i \in DOMAIN names : startswith(names[i]) /\ names[i] \notin DOMAIN fs
    THEN [fn |-> "get_entire_co2_ppm_cache", raised |-> "FileNotFoundError",
          value |-> <<>>]
    ELSE [fn |-> "get_entire_co2_ppm_cache", raised |-> "none",
          value |-> sort_by_timestamp(read_listed(fs, names))]

ReadListed ==
  /\ rpc = "listed"
  /\ ret' = entire(files, listing)
  /\ rpc' = "idle"
  /\ listing' = <<>>
  /\ UNCHANGED <<response, tzname, now, dirExists, files, pc, samples, status, calls, checked>>

\* Another process removes an archival file that the listing of a running
\* get_entire_co2_ppm_cache has named and that the loop has not opened yet.
ExternalUnlink ==
  /\ rpc = "listed"
  /\ \E n \in Range(listing) \cap (DOMAIN files \ {CO2_PPM_CACHE}) :
       files' = [m \in DOMAIN files \ {n} |-> files[m]]
  /\ UNCHANGED <<response, tzname, now, dirExists, pc, samples, status, calls, checked>>
  /\ ReadersWait

(* ---- the clock ---- *)

\* A second passes.
Tick ==
  /\ now < MaxClock
  /\ now' = now + 1
  /\ UNCHANGED <<response, tzname, dirExists, files, pc, samples, status, calls, checked>>
  /\ ReadersWait

\* The local time of America/New_York repeats an hour when daylight saving
\* time ends: datetime.now(est) reads an earlier time than it did before.
FallBack ==
  /\ \E t \in 0..(now - 1) : now' = t
  /\ UNCHANGED <<response, tzname, dirExists, files, pc, samples, status, calls, checked>>
  /\ ReadersWait

Init ==
  /\ tzname \in HostZones
  /\ now = 0
  /\ dirExists = FALSE
  /\ files = <<>>
  /\ pc = "idle"
  /\ response = <<>>
  /\ samples = <<>>
  /\ status = "none"
  /\ calls = 0
  /\ checked = <<>>
  /\ rpc = "idle"
  /\ listing = <<>>
  /\ ret = NoCall

Next ==
  \/ FetchFail
  \/ FetchParse
  \/ Mkdir
  \/ EnsureFile
  \/ AppendSamples
  \/ SizeCheck
  \/ Rename
  \/ Create
  \/ get_co2_ppm_cache
  \/ ListDir
  \/ ReadListed
  \/ Tick
  \/ FallBack

Spec == Init /\ [][Next]_vars

\* One refresh of a sensor that may send any of WideLines, beside the
\* readers: the refresh is the last one the bound MaxRefresh allows.
InitWide ==
  /\ tzname \in HostZones
  /\ now = 0
  /\ dirExists = FALSE
  /\ files = <<>>
  /\ pc = "idle"
  /\ response = <<>>
  /\ samples = <<>>
  /\ status = "none"
  /\ calls = MaxRefresh - 1
  /\ checked = <<>>
  /\ rpc = "idle"
  /\ listing = <<>>
  /\ ret = NoCall

NextWide ==
  \/ FetchFail
  \/ FetchParseWide
  \/ Mkdir
  \/ EnsureFile
  \/ AppendSamples
  \/ SizeCheck
  \/ Rename
  \/ Create
  \/ get_co2_ppm_cache
  \/ ListDir
  \/ ReadListed
  \/ Tick
  \/ FallBack

SpecWide == InitWide /\ [][NextWide]_vars

\* The cache on a file system that may refuse a rename.
NextRenameFails == Next \/ RenameFails

SpecRenameFails == Init /\ [][NextRenameFails]_vars

\* The cache beside a process that removes archival files.
NextUnlink == Next \/ ExternalUnlink

SpecUnlink == Init /\ [][NextUnlink]_vars

(* ---- what the claims are stated with ---- *)

\* How many times x occurs in the sequence.
Count(x, seq) == Cardinality({ i \in DOMAIN seq : seq[i] = x })

\* Every element of s occurs in t at least as often as in s.
SubBag(s, t) == \A x \in Range(s) : Count(x, s) <= Count(x, t)

SameBag(s, t) == SubBag(s, t) /\ SubBag(t, s)

IsSorted(ss) ==
  \A i, j \in DOMAIN ss : i < j => ss[i].timestamp <= ss[j].timestamp

RECURSIVE LinesOf(_, _)
\* The lines of the named files, one file after the other.
LinesOf(fs, names) ==
  IF names = {} THEN <<>>
  ELSE LET n == CHOOSE n \in names : TRUE
       IN  fs[n] \o LinesOf(fs, names \ {n})

\* Every line stored in the cache directory.
AllLines(fs) == LinesOf(fs, DOMAIN fs)

Archives(fs) == DOMAIN fs \ {CO2_PPM_CACHE}

NewYorkHost == tzname = {"EST", "EDT"}

\* The samples of the lines that parse, in the order of the lines.
Accepted(lines) ==
  LET ok == SelectSeq(lines, LAMBDA l : parse_sample(l) # None)
  IN  [i \in 1..Len(ok) |-> parse_sample(ok[i])]

\* Every numeric field of the line carries the unit of that field.
UnitsExpected(line) ==
  line.unit = "ppm" /\ line.tunit = "C" /\ line.hunit = "rel_humidity"

\* The fields the line has are well formed, whatever their units: text in
\* UTF-8, a timestamp of the fixed format, and a number and one more token in
\* every numeric field.
FieldsWellFormed(line) ==
  /\ line.utf8 /\ line.tsfmt
  /\ line.co2tok = 2 /\ line.co2num
  /\ line.nf = 4 => (line.ttok = 2 /\ line.tnum /\ line.htok = 2 /\ line.hnum)

\* The line is a sample of the data model: one of the two record shapes,
\* well-formed fields, the expected units, a concentration that is not
\* negative.
RuleValid(line) ==
  /\ line.nf \in {2, 4}
  /\ FieldsWellFormed(line)
  /\ UnitsExpected(line)
  /\ line.co2 >= 0

IsPrefix(s, t) == Len(s) <= Len(t) /\ SubSeq(t, 1, Len(s)) = s

(* ---- the claims ---- *)

\* C1: no step of any refresh cycle loses a stored line: every line present
\* in some segment before the step is present in some segment after it, as
\* often as before.
C1_NoLossOfPersistedData ==
  [][SubBag(AllLines(files), AllLines(files'))]_vars

\* C2, as claimed: when the size check of a refresh found the active file at
\* or above the threshold, then once the refresh has returned the old content
\* is the content of exactly one archival segment, the active file exists and
\* is empty, and get_entire_co2_ppm_cache returns the samples that
\* get_co2_ppm_cache returned before the rotation.
C2_RotationAtOrAboveThreshold ==
  (pc = "idle" /\ status = "returned" /\ Len(checked) >= RotateLines)
    => /\ Cardinality({ n \in Archives(files) : files[n] = checked }) = 1
       /\ CO2_PPM_CACHE \in DOMAIN files
       /\ files[CO2_PPM_CACHE] = <<>>
       /\ \A l \in Listings(DOMAIN files) :
            /\ entire(files, l).raised = "none"
            /\ SameBag(entire(files, l).value,
                       sort_by_timestamp(ParseLines(checked)))

\* C2, as amended: when the size check of a refresh found the active file
\* strictly above the threshold, then once the refresh has returned the old
\* content is the content of an archival segment, the active file exists and
\* is empty, and get_entire_co2_ppm_cache returns every sample that
\* get_co2_ppm_cache returned before the rotation, and exactly those when
\* that archival segment is the only one.
C2_RotationPreservesData ==
  (pc = "idle" /\ status = "returned" /\ Len(checked) > RotateLines)
    => /\ \E n \in Archives(files) : files[n] = checked
       /\ CO2_PPM_CACHE \in DOMAIN files
       /\ files[CO2_PPM_CACHE] = <<>>
       /\ \A l \in Listings(DOMAIN files) :
            /\ entire(files, l).raised = "none"
            /\ SubBag(sort_by_timestamp(ParseLines(checked)),
                      entire(files, l).value)
            /\ Cardinality(Archives(files)) = 1
                 => SameBag(entire(files, l).value,
                            sort_by_timestamp(ParseLines(checked)))

\* A refresh has rotated a file whose samples the host can read back, and an
\* earlier archival segment exists beside the new one.
C2_Witness ==
  /\ pc = "idle" /\ status = "returned" /\ Len(checked) > RotateLines
  /\ NewYorkHost
  /\ Cardinality(Archives(files)) = 2
  /\ Len(ParseLines(checked)) = Len(checked)

\* C3: a refresh that received a response ends without an exception, and
\* what it appends to the active file is one line per line of the response
\* that parses, whatever the other lines are.
C3_SoftFailureOnBadLines ==
  /\ status # "UnicodeDecodeError"
  /\ pc = "getsize" =>
       /\ Len(files[CO2_PPM_CACHE]) >= Len(samples)
       /\ SubSeq(files[CO2_PPM_CACHE],
                 Len(files[CO2_PPM_CACHE]) - Len(samples) + 1,
                 Len(files[CO2_PPM_CACHE])) = FormatSamples(samples)

\* C4: a refresh whose fetch fails returns at once and leaves the cache
\* directory, every file in it and the state of refresh as they were, so
\* that a later refresh starts from what it would have started from.
C4_FetchFailureLeavesCacheUntouched ==
  [][(pc = "idle" /\ calls' # calls /\ status' = "fetch_error")
       => /\ files' = files
          /\ dirExists' = dirExists
          /\ pc' = "idle"
          /\ samples' = samples]_vars

\* A fetch has failed when the cache held an archival segment and a non-empty
\* active file.
C4_Witness ==
  /\ status = "fetch_error"
  /\ Archives(files) # {}
  /\ CO2_PPM_CACHE \in DOMAIN files
  /\ files[CO2_PPM_CACHE] # <<>>

\* C5: get_co2_ppm_cache called when no file of the cache exists yet returns
\* the empty list and raises nothing.
C5_MissingActiveSegmentIsEmpty ==
  (ret.fn = "get_co2_ppm_cache" /\ DOMAIN files = {})
    => (ret.raised = "none" /\ ret.value = <<>>)

\* C6: a reader call that ends between the rename of the active file and the
\* creation of the new one raises nothing, and get_co2_ppm_cache returns the
\* empty list there.
C6_ReaderToleratesPartialRotation ==
  (ret.fn # "none" /\ pc = "create")
    => /\ ret.raised = "none"
       /\ ret.fn = "get_co2_ppm_cache" => ret.value = <<>>

\* C7: when get_entire_co2_ppm_cache reads the files its listing named, in
\* whatever order the listing gave them, it returns the samples of the lines
\* of all the files that parse, each as often as it is stored, in ascending
\* order of timestamp.
C7_MergeCorrectness ==
  [][(rpc = "listed" /\ rpc' = "idle" /\ Range(listing) = DOMAIN files)
       => /\ ret'.raised = "none"
          /\ IsSorted(ret'.value)
          /\ SameBag(ret'.value, ParseLines(AllLines(files)))]_vars

\* get_entire_co2_ppm_cache has returned every sample of an active file and
\* two archival segments, some of them more than once.
C7_Witness ==
  /\ ret.fn = "get_entire_co2_ppm_cache" /\ ret.raised = "none"
  /\ Cardinality(DOMAIN files) = 3
  /\ files[CO2_PPM_CACHE] # <<>>
  /\ Len(ret.value) = Len(AllLines(files))
  /\ \E i, j \in DOMAIN ret.value : i # j /\ ret.value[i] = ret.value[j]

\* C8: get_co2_ppm_cache returns the samples of all the lines refresh has
\* appended to the active file, none missing and none added, in ascending
\* order of timestamp.
C8_AppendMonotonicity ==
  (ret.fn = "get_co2_ppm_cache" /\ ret.raised = "none")
    => /\ IsSorted(ret.value)
       /\ SameBag(FormatSamples(ret.value), files[CO2_PPM_CACHE])

\* C9: no step changes, replaces or removes an archival segment.
C9_ArchivalSegmentsImmutable ==
  [][\A n \in Archives(files) : n \in DOMAIN files' /\ files'[n] = files[n]]_vars

\* C10: the name a rotation gives the old file carries a stamp strictly
\* greater than the stamp of every archival segment made before.
C10_ArchiveNamesFollowCreationOrder ==
  [][(pc = "rename" /\ pc' = "create")
       => \A n \in Archives(files) : n[2] < now]_vars

\* C11: when an archival file that the listing named has been removed before
\* get_entire_co2_ppm_cache opens it, and the active file is there, the call
\* raises nothing and returns the samples of the listed files that are still
\* there, in ascending order of timestamp.
C11_UnreadableArchiveIsSkipped ==
  [][(/\ rpc = "listed" /\ rpc' = "idle"
      /\ CO2_PPM_CACHE \in DOMAIN files
      /\ \E i \in DOMAIN listing :
           listing[i] # CO2_PPM_CACHE /\ listing[i] \notin DOMAIN files)
       => /\ ret'.raised = "none"
          /\ IsSorted(ret'.value)
          /\ SameBag(ret'.value,
                     ParseLines(LinesOf(files, Range(listing) \cap DOMAIN files)))]_vars

\* C12: the samples refresh keeps are those of the lines of the response that
\* parse, in the order of the response and with its repetitions, and the
\* append writes one line for each of them, in that order, after the lines
\* the active file held, which stay as they were; no other file changes.
C12_AppendPreservesFeedOrder ==
  [][/\ (pc = "idle" /\ pc' = "mkdir") => samples' = Accepted(response')
     /\ (pc = "append" /\ pc' = "getsize")
          => /\ samples' = samples
             /\ IsPrefix(files[CO2_PPM_CACHE], files'[CO2_PPM_CACHE])
             /\ Len(files'[CO2_PPM_CACHE])
                  = Len(files[CO2_PPM_CACHE]) + Len(samples)
             /\ \A i \in DOMAIN samples :
                  files'[CO2_PPM_CACHE][Len(files[CO2_PPM_CACHE]) + i]
                    = FormatSample(samples[i])
             /\ \A n \in Archives(files) :
                  n \in DOMAIN files' /\ files'[n] = files[n]]_vars

\* A refresh has appended two samples, the later reading first, to an active
\* file that held a line equal to the second.
C12_Witness ==
  /\ pc = "getsize"
  /\ Len(samples) = 2
  /\ samples[1].timestamp > samples[2].timestamp
  /\ Len(files[CO2_PPM_CACHE]) = 3
  /\ files[CO2_PPM_CACHE][1] = files[CO2_PPM_CACHE][3]

\* C13: a rename that fails leaves every file as it was, the lines appended
\* by that refresh included, and ends the refresh; and whenever the active
\* file still begins with the oversized content of the last size check, the
\* size check of the next refresh leads to the rename again.
C13_RenameFailureLosesNothing ==
  [][/\ (pc = "rename" /\ status' = "OSError")
          => /\ files' = files
             /\ pc' = "idle"
             /\ IsPrefix(checked, files'[CO2_PPM_CACHE])
     /\ (/\ pc = "getsize" /\ pc' # "getsize"
         /\ Len(checked) > RotateLines
         /\ IsPrefix(checked, files[CO2_PPM_CACHE]))
          => pc' = "rename"]_vars

\* A rename has failed, and the next refresh has appended to the file that
\* was left oversized and is about to rename it: the file holds more lines
\* than one refresh can append to a file within the threshold.
C13_Witness ==
  /\ pc = "rename"
  /\ Len(samples) > 0
  /\ getsize(CO2_PPM_CACHE) > RotateLines + MaxFeed
  /\ checked = files[CO2_PPM_CACHE]

\* C14: the lines a refresh has just written, read back with parse_sample,
\* are the samples it wrote, each with the same timestamp, co2_ppm,
\* temperature and humidity, none skipped.
C14_RoundTrip ==
  pc = "getsize"
    => /\ \A i \in DOMAIN samples :
            parse_sample(FormatSample(samples[i])) = samples[i]
       /\ Len(files[CO2_PPM_CACHE]) >= Len(samples)
       /\ ParseLines(SubSeq(files[CO2_PPM_CACHE],
                            Len(files[CO2_PPM_CACHE]) - Len(samples) + 1,
                            Len(files[CO2_PPM_CACHE]))) = samples

\* C15: every line of every file of the cache is a sample of the data model
\* in the four field shape, and every line of a response from which refresh
\* keeps a sample to write is one.
C15_OnlyValidSamplesStored ==
  /\ \A n \in DOMAIN files : \A i \in DOMAIN files[n] :
       files[n][i].nf = 4 /\ RuleValid(files[n][i])
  /\ pc = "mkdir"
       => /\ samples = Accepted(response)
          /\ \A i \in DOMAIN response :
               parse_sample(response[i]) # None => RuleValid(response[i])

\* C16: the samples refresh keeps of a response are those of its lines that
\* carry the expected unit in every numeric field and parse: a line with
\* another unit after the concentration, the temperature or the humidity
\* yields no sample.
C16_UnitValidation ==
  pc = "mkdir"
    => /\ samples = Accepted(SelectSeq(response, UnitsExpected))
       /\ \A i \in DOMAIN response :
            ~UnitsExpected(response[i]) => parse_sample(response[i]) = None

\* C17: of the lines of a response, one with two or with four well-formed
\* fields and a zone name every host knows yields a sample, and one with any
\* other number of fields yields none.
C17_RecordShapeByFieldCount ==
  pc = "mkdir"
    => /\ \A i \in DOMAIN response :
            /\ response[i].nf \notin {2, 4} => parse_sample(response[i]) = None
            /\ (/\ response[i].nf \in {2, 4}
                /\ FieldsWellFormed(response[i])
                /\ response[i].unit = "ppm"
                /\ response[i].zone \in {"UTC", "GMT"})
                 => parse_sample(response[i]) # None
       /\ Len(samples)
            >= Len(SelectSeq(response,
                             LAMBDA l : /\ l.nf \in {2, 4}
                                        /\ FieldsWellFormed(l)
                                        /\ l.unit = "ppm"
                                        /\ l.zone \in {"UTC", "GMT"}))

C19_RotationTriggerAndFrame ==
  [][/\ (pc' = "getsize" /\ pc # "getsize") => pc = "append"
     /\ (pc = "getsize" /\ pc' # "getsize")
          => /\ files' = files
             /\ pc' = "rename" <=> getsize(CO2_PPM_CACHE) > RotateLines
             /\ pc' # "rename" => (pc' = "idle" /\ status' = "returned")
     /\ (\/ Archives(files') # Archives(files)
         \/ \E n \in Archives(files) : files'[n] # files[n])
          => /\ pc = "rename" /\ pc' = "create"
             /\ checked = files[CO2_PPM_CACHE]
             /\ Len(checked) > RotateLines]_vars

\* A size check has found the active file one line above the threshold and
\* sent the refresh to the rename, beside an earlier archival file.
C19_Witness ==
  /\ pc = "rename"
  /\ checked = files[CO2_PPM_CACHE]
  /\ getsize(CO2_PPM_CACHE) = RotateLines + 1
  /\ Archives(files) # {}

====
